---- MODULE Spec2Model ----
(***************************************************************************)
(* A model of the `new` scaffolding CLI (rayhanadev/new):                  *)
(*   src/src/scaffold.ts   normalizePackageName, isDirectoryEmpty,         *)
(*                         cloneTemplateRepo, listFilesRecursively,        *)
(*                         applyTemplateTokens, scaffoldProject            *)
(*   src/unnamed/part_000  parseArgs, exitCancelled, run (the CLI entry)   *)
(*                                                                         *)
(* Strings are sequences of one-character strings, so that trimming,       *)
(* lower-casing, regular-expression replacement, startsWith/endsWith,      *)
(* extname and replaceAll are computed character by character.             *)
(***************************************************************************)
EXTENDS Integers, Sequences, FiniteSets, TLC

VARIABLES
    mode,         \* which entry point this behaviour exercises
    pc,           \* position of the running routine
    nameIn,       \* normalizePackageName: the argument
    nameOut,      \* normalizePackageName: the value returned
    nameOut2,     \* normalizePackageName applied to its own result
    argv,         \* parseArgs / run: Bun.argv.slice(2)
    cli,          \* parseArgs: the returned CliOptions, or the Error thrown
    tty,          \* run: Bun.stdin.isTTY
    exitCode,     \* run: the process exit code, -1 while the process runs
    cancelled,    \* run: exitCancelled was called
    local,        \* run: its locals targetDir, projectName and options.force
    info,         \* run: the log.info line printed after the scaffold
    fs,           \* the directories a target path can resolve to
    fs0,          \* fs as it was before the call (history)
    staging,      \* the mkdtemp staging directory
    template,     \* the files of the template repository
    opt,          \* scaffoldProject: its ScaffoldOptions argument
    createdFiles, \* scaffoldProject: the local createdFiles
    err,          \* the Error thrown by scaffoldProject or run, kind "none" if none
    result,       \* scaffoldProject: <<the ScaffoldResult returned>>, <<>> if none
    procs,        \* the subprocesses spawned so far, with their exit codes
    done          \* scaffoldProject: the steps completed so far (history)

pureVars == <<nameIn, nameOut, nameOut2>>

cliVars == <<argv, cli, tty, exitCode, cancelled, local, info>>

fsVars == <<fs, fs0, staging, template>>

spVars == <<opt, createdFiles, err, result, procs, done>>

vars == <<mode, pc, pureVars, cliVars, fsVars, spVars>>

(***************************************************************************)
(* Bounds of the model.                                                    *)
(***************************************************************************)
MaxNameLen == 3

MaxArgs == 3

MaxFiles == 2

(***************************************************************************)
(* Characters and strings.                                                 *)
(***************************************************************************)
UpperChars ==
    <<"A","B","C","D","E","F","G","H","I","J","K","L","M",
      "N","O","P","Q","R","S","T","U","V","W","X","Y","Z">>

LowerChars ==
    <<"a","b","c","d","e","f","g","h","i","j","k","l","m",
      "n","o","p","q","r","s","t","u","v","w","x","y","z">>

DigitChars == {"0","1","2","3","4","5","6","7","8","9"}

WhiteSpace == {" ", "\t", "\n"}

None == <<"<none>">>

Range(s) == {s[i] : i \in DOMAIN s}

\* String.prototype.startsWith / endsWith
StartsWith(s, p) ==
    /\ Len(s) >= Len(p)
    /\ SubSeq(s, 1, Len(p)) = p

EndsWith(s, p) ==
    /\ Len(s) >= Len(p)
    /\ SubSeq(s, Len(s) - Len(p) + 1, Len(s)) = p

\* String.prototype.trim
RECURSIVE TrimStart(_)
TrimStart(s) ==
    IF s # <<>> /\ Head(s) \in WhiteSpace THEN TrimStart(Tail(s)) ELSE s

RECURSIVE TrimEnd(_)
TrimEnd(s) ==
    IF s # <<>> /\ s[Len(s)] \in WhiteSpace
        THEN TrimEnd(SubSeq(s, 1, Len(s) - 1))
        ELSE s

Trim(s) == TrimEnd(TrimStart(s))

\* String.prototype.toLowerCase
ToLowerChar(c) ==
    IF \E i \in DOMAIN UpperChars : UpperChars[i] = c
        THEN LowerChars[CHOOSE i \in DOMAIN UpperChars : UpperChars[i] = c]
        ELSE c

ToLowerCase(s) == [i \in DOMAIN s |-> ToLowerChar(s[i])]

(***************************************************************************)
(* normalizePackageName (scaffold.ts 22-31).                               *)
(***************************************************************************)
\* the character class [a-z0-9-_]
PackageChars == Range(LowerChars) \cup DigitChars \cup {"-", "_"}

\* .replace(/[^a-z0-9-_]/g, "-"): every character outside the class, one by one
ReplaceInvalidSpacesOnly(s) ==
    [i \in DOMAIN s |-> IF s[i] \in WhiteSpace THEN "-" ELSE s[i]]

ReplaceInvalid(s) ==
    [i \in DOMAIN s |-> IF s[i] \in PackageChars THEN s[i] ELSE "-"]

\* .replace(/-+/g, "-"): every run of hyphens becomes one hyphen
RECURSIVE CollapseHyphens(_)
CollapseHyphens(s) ==
    IF Len(s) < 2 THEN s
    ELSE IF s[1] = "-" /\ s[2] = "-" THEN CollapseHyphens(Tail(s))
    ELSE <<s[1]>> \o CollapseHyphens(Tail(s))

\* .replace(/^-|-$/g, ""): one hyphen at the start and one at the end
StripEdgeHyphens(s) ==
    LET a == IF s # <<>> /\ Head(s) = "-" THEN Tail(s) ELSE s
    IN  IF a # <<>> /\ a[Len(a)] = "-" THEN SubSeq(a, 1, Len(a) - 1) ELSE a

FallbackName == <<"b","u","n","-","a","p","p">>

normalizePackageName(projectName) ==
    LET r == StripEdgeHyphens(CollapseHyphens(ReplaceInvalid(
                 ToLowerCase(Trim(projectName)))))
    IN  IF r = <<>> THEN FallbackName ELSE r

(***************************************************************************)
(* parseArgs (part_000 24-101).                                            *)
(***************************************************************************)
Null == <<"<null>">>

OptHelp      == <<"-","-","h","e","l","p">>
OptH         == <<"-","h">>
OptVersion   == <<"-","-","v","e","r","s","i","o","n">>
OptV         == <<"-","v">>
OptForce     == <<"-","-","f","o","r","c","e">>
OptF         == <<"-","f">>
OptNoInstall == <<"-","-","n","o","-","i","n","s","t","a","l","l">>
OptPath      == <<"-","-","p","a","t","h">>
OptP         == <<"-","p">>
OptPathEq    == <<"-","-","p","a","t","h","=">>
OptPEq       == <<"-","p","=">>

\* the CliOptions literal of lines 25-32
DefaultCliOptions ==
    [force |-> FALSE, help |-> FALSE, install |-> TRUE,
     pathArg |-> Null, projectNameArg |-> Null, version |-> FALSE]

Returned(options) == [error |-> "none", options |-> options]

Thrown(message, options) == [error |-> message, options |-> options]

\* arg.slice(arg.indexOf("=") + 1)
AfterEquals(arg) ==
    LET k == CHOOSE i \in DOMAIN arg :
                 /\ arg[i] = "="
                 /\ \A j \in 1..(i - 1) : arg[j] # "="
    IN  SubSeq(arg, k + 1, Len(arg))

\* the check after the loop, lines 96-100
ParseFinishUnchecked(options) == Returned(options)

ParseFinish(options) ==
    IF options.projectNameArg # Null /\ options.pathArg # Null
        THEN Thrown("Use either a project name argument or --path, not both.", options)
        ELSE Returned(options)

\* the loop of lines 34-94, from index i (1-based) with the options so far
RECURSIVE ParseLoop(_, _, _)
ParseLoop(args, i, options) ==
    IF i > Len(args) THEN ParseFinish(options)
    ELSE LET arg == args[i] IN
      IF arg = OptHelp \/ arg = OptH
        THEN ParseLoop(args, i + 1, [options EXCEPT !.help = TRUE])
      ELSE IF arg = OptVersion \/ arg = OptV
        THEN ParseLoop(args, i + 1, [options EXCEPT !.version = TRUE])
      ELSE IF arg = OptForce \/ arg = OptF
        THEN ParseLoop(args, i + 1, [options EXCEPT !.force = TRUE])
      ELSE IF arg = OptNoInstall
        THEN ParseLoop(args, i + 1, [options EXCEPT !.install = FALSE])
      ELSE IF arg = OptPath \/ arg = OptP
        THEN IF i + 1 > Len(args) \/ StartsWith(args[i + 1], <<"-">>)
               THEN Thrown("Missing value for option.", options)
             ELSE IF Trim(args[i + 1]) = <<>>
               THEN Thrown("Path must not be empty.", options)
             ELSE IF options.pathArg # Null
               THEN Thrown("Path can only be provided once.", options)
             ELSE ParseLoop(args, i + 2, [options EXCEPT !.pathArg = args[i + 1]])
      ELSE IF StartsWith(arg, OptPathEq) \/ StartsWith(arg, OptPEq)
        THEN IF Trim(AfterEquals(arg)) = <<>>
               THEN Thrown("Path must not be empty.", options)
             ELSE IF options.pathArg # Null
               THEN Thrown("Path can only be provided once.", options)
             ELSE ParseLoop(args, i + 1, [options EXCEPT !.pathArg = AfterEquals(arg)])
      ELSE IF StartsWith(arg, <<"-">>)
        THEN Thrown("Unknown option.", options)
      ELSE IF options.projectNameArg # Null
        THEN Thrown("Only one project name can be provided.", options)
      ELSE ParseLoop(args, i + 1, [options EXCEPT !.projectNameArg = arg])

parseArgs(args) == ParseLoop(args, 1, DefaultCliOptions)

(***************************************************************************)
(* Paths, files and directories.  A directory is [exists, files]; files    *)
(* maps the relative path of every file below it to the file's content.    *)
(***************************************************************************)
PackageJson == <<"p","a","c","k","a","g","e",".","j","s","o","n">>
LogoPng     == <<"l","o","g","o",".","p","n","g">>
GitIgnore   == <<".","g","i","t","i","g","n","o","r","e">>
NotesTxt    == <<"n","o","t","e","s",".","t","x","t">>
GitDir      == <<".","g","i","t">>
GitHead     == <<".","g","i","t","/","H","E","A","D">>

ProjectToken == <<"_","_","P","R","O","J","E","C","T","_","N","A","M","E","_","_">>
PackageToken == <<"_","_","P","A","C","K","A","G","E","_","N","A","M","E","_","_">>

NoFiles == [p \in {} |-> <<>>]

AbsentDir == [exists |-> FALSE, files |-> NoFiles]

EmptyDir == [exists |-> TRUE, files |-> NoFiles]

DirWith(files) == [exists |-> TRUE, files |-> files]

\* path.basename of a relative path: what follows the last "/"
RECURSIVE Basename(_)
Basename(path) ==
    IF \E i \in DOMAIN path : path[i] = "/"
        THEN Basename(Tail(path))
        ELSE path

\* path.extname: from the last "." of the basename, "" when there is none or
\* when the only "." is the basename's first character
extname(path) ==
    LET base == Basename(path)
        dots == {i \in DOMAIN base : base[i] = "."}
    IN  IF dots = {} THEN <<>>
        ELSE LET k == CHOOSE i \in dots : \A j \in dots : j <= i
             IN  IF k = 1 THEN <<>> ELSE SubSeq(base, k, Len(base))

(***************************************************************************)
(* isDirectoryEmpty (scaffold.ts 33-44): readdir, ENOENT counts as empty.  *)
(***************************************************************************)
isDirectoryEmptyNoEnoent(dir) == dir.exists /\ DOMAIN dir.files = {}

isDirectoryEmpty(dir) ==
    IF dir.exists THEN DOMAIN dir.files = {} ELSE TRUE

(***************************************************************************)
(* applyTemplateTokens (scaffold.ts 111-144).                              *)
(***************************************************************************)
textExtensions ==
    { <<".","j","s","o","n">>, <<".","t","s">>, <<".","t","s","x">>,
      <<".","j","s">>, <<".","j","s","x">>, <<".","m","d">>,
      <<".","t","x","t">>, <<".","t","o","m","l">>, <<".","y","a","m","l">>,
      <<".","y","m","l">> }

\* line 129, negated: the files applyTemplateTokens rewrites
IsTemplateText(filePath) ==
    \/ extname(filePath) \in textExtensions
    \/ EndsWith(filePath, GitIgnore)

\* GetSubstitution of ECMAScript, as String.prototype.replaceAll applies it to
\* a string replacement for a string pattern (no captures): "$$" is "$",
\* "$&" the match, "$`" the text before it, "$'" the text after it.
RECURSIVE GetSubstitution(_, _, _, _)
GetSubstitution(replacement, matched, before, after) ==
    IF replacement = <<>> THEN <<>>
    ELSE IF Len(replacement) >= 2 /\ replacement[1] = "$"
                /\ replacement[2] \in {"$", "&", "`", "'"}
        THEN (CASE replacement[2] = "$" -> <<"$">>
                [] replacement[2] = "&" -> matched
                [] replacement[2] = "`" -> before
                [] replacement[2] = "'" -> after)
             \o GetSubstitution(SubSeq(replacement, 3, Len(replacement)),
                                matched, before, after)
    ELSE <<replacement[1]>>
             \o GetSubstitution(Tail(replacement), matched, before, after)

\* String.prototype.replaceAll(searchString, replaceValue), from position i
RECURSIVE ReplaceAllFrom(_, _, _, _)
ReplaceAllFrom(str, i, searchString, replaceValue) ==
    IF i > Len(str) THEN <<>>
    ELSE IF i + Len(searchString) - 1 <= Len(str)
              /\ SubSeq(str, i, i + Len(searchString) - 1) = searchString
        THEN GetSubstitution(replaceValue, searchString,
                             SubSeq(str, 1, i - 1),
                             SubSeq(str, i + Len(searchString), Len(str)))
             \o ReplaceAllFrom(str, i + Len(searchString), searchString, replaceValue)
    ELSE <<str[i]>> \o ReplaceAllFrom(str, i + 1, searchString, replaceValue)

replaceAll(str, searchString, replaceValue) ==
    ReplaceAllFrom(str, 1, searchString, replaceValue)

\* lines 135-137: the two replaceAll calls, one after the other
RewriteTokens(original, projectName) ==
    replaceAll(replaceAll(original, ProjectToken, projectName),
               PackageToken, normalizePackageName(projectName))

\* lines 126-143 on the files of one directory
applyTemplateTokens(files, filePaths, projectName) ==
    [p \in DOMAIN files |->
        IF p \in filePaths /\ IsTemplateText(p)
            THEN RewriteTokens(files[p], projectName)
            ELSE files[p]]

(***************************************************************************)
(* File-tree operations of scaffoldProject.                                *)
(***************************************************************************)
\* git clone (line 85): the template's files and the repository metadata
CloneOutput(tmpl) ==
    [p \in DOMAIN tmpl \cup {GitHead} |->
        IF p = GitHead THEN <<"r","e","f">> ELSE tmpl[p]]

\* rm(resolve(stagingDir, ".git"), {force, recursive}) (line 169)
RemoveGitDir(files) ==
    [p \in {q \in DOMAIN files :
                q # GitDir /\ ~StartsWith(q, GitDir \o <<"/">>)} |-> files[p]]

\* cp(src, dst, {force: true, recursive: true}) (lines 176-179)
CopyTreeNoForce(dst, src) ==
    [p \in DOMAIN dst \cup DOMAIN src |->
        IF p \in DOMAIN dst THEN dst[p] ELSE src[p]]

CopyTree(dst, src) ==
    [p \in DOMAIN dst \cup DOMAIN src |->
        IF p \in DOMAIN src THEN src[p] ELSE dst[p]]

(***************************************************************************)
(* scaffoldProject (scaffold.ts 146-200), one action per awaited step.     *)
(***************************************************************************)
\* options.force ?? false, options.install ?? true (lines 149-150)
ForceDefaultTrue == opt.force # "false"

Force == opt.force = "true"

Install == opt.install # "false"

\* options.projectName.trim() (line 148)
ProjectName == Trim(opt.projectName)

Target == fs[opt.targetDir]

NoError == [kind |-> "none", dir |-> "-"]

ExitCodes == {0, 1, 128}

Spawned(cmd) == \E i \in DOMAIN procs : procs[i].cmd = cmd

ExitCodeOf(cmd) == procs[CHOOSE i \in DOMAIN procs : procs[i].cmd = cmd].exit

\* lines 147-156: resolve the options, reject an empty project name
SpValidateName ==
    /\ pc = "sp_entry"
    /\ \/ /\ Len(ProjectName) = 0
          /\ err' = [kind |-> "Project name must not be empty.", dir |-> "-"]
          /\ pc' = "sp_thrown"
       \/ /\ Len(ProjectName) # 0
          /\ pc' = "sp_check"
          /\ UNCHANGED err
    /\ UNCHANGED <<mode, pureVars, cliVars, fsVars>>
    /\ UNCHANGED <<opt, createdFiles, result, procs, done>>

\* lines 158-160
SpCheckEmpty ==
    /\ pc = "sp_check"
    /\ \/ /\ ~isDirectoryEmpty(Target) /\ ~Force
          /\ err' = [kind |-> "Target directory is not empty.", dir |-> opt.targetDir]
          /\ pc' = "sp_thrown"
       \/ /\ ~(~isDirectoryEmpty(Target) /\ ~Force)
          /\ pc' = "sp_mkdir"
          /\ UNCHANGED err
    /\ UNCHANGED <<mode, pureVars, cliVars, fsVars>>
    /\ UNCHANGED <<opt, createdFiles, result, procs, done>>

\* line 162: mkdir(targetDir, {recursive: true})
SpMkdir ==
    /\ pc = "sp_mkdir"
    /\ fs' = [fs EXCEPT ![opt.targetDir].exists = TRUE]
    /\ done' = done \cup {"mkdir"}
    /\ pc' = "sp_mkdtemp"
    /\ UNCHANGED <<mode, pureVars, cliVars, fs0, staging, template>>
    /\ UNCHANGED <<opt, createdFiles, err, result, procs>>

\* lines 164-165: mkdtemp beside the target
SpMkdtemp ==
    /\ pc = "sp_mkdtemp"
    /\ staging' = EmptyDir
    /\ done' = done \cup {"mkdtemp"}
    /\ pc' = "sp_clone"
    /\ UNCHANGED <<mode, pureVars, cliVars, fs, fs0, template>>
    /\ UNCHANGED <<opt, createdFiles, err, result, procs>>

\* line 168 with cloneTemplateRepo (83-93): git clone into the staging
\* directory; a failing clone may leave any part of its output behind
SpCloneIntoTarget ==
    /\ pc = "sp_clone"
    /\ \E exitCode_ \in ExitCodes :
          /\ procs' = Append(procs, [cmd |-> "clone", exit |-> exitCode_])
          /\ \/ /\ exitCode_ = 0
                /\ fs' = [fs EXCEPT ![opt.targetDir].files =
                              CopyTree(@, CloneOutput(template))]
                /\ staging' = [staging EXCEPT !.files = CloneOutput(template)]
                /\ pc' = "sp_rmgit"
                /\ UNCHANGED err
             \/ /\ exitCode_ # 0
                /\ \E left \in {NoFiles, CloneOutput(template)} :
                      fs' = [fs EXCEPT ![opt.targetDir].files = CopyTree(@, left)]
                /\ UNCHANGED staging
                /\ err' = [kind |-> "git clone failed.", dir |-> "-"]
                /\ pc' = "sp_finally"
    /\ done' = done \cup {"clone"}
    /\ UNCHANGED <<mode, pureVars, cliVars, fs0, template>>
    /\ UNCHANGED <<opt, createdFiles, result>>

SpClone ==
    /\ pc = "sp_clone"
    /\ \E exitCode_ \in ExitCodes :
          /\ procs' = Append(procs, [cmd |-> "clone", exit |-> exitCode_])
          /\ \/ /\ exitCode_ = 0
                /\ staging' = [staging EXCEPT !.files = CloneOutput(template)]
                /\ pc' = "sp_rmgit"
                /\ UNCHANGED err
             \/ /\ exitCode_ # 0
                /\ \E left \in {NoFiles, CloneOutput(template)} :
                      staging' = [staging EXCEPT !.files = left]
                /\ err' = [kind |-> "git clone failed.", dir |-> "-"]
                /\ pc' = "sp_finally"
    /\ done' = done \cup {"clone"}
    /\ UNCHANGED <<mode, pureVars, cliVars, fs, fs0, template>>
    /\ UNCHANGED <<opt, createdFiles, result>>

\* line 169
SpRemoveGit ==
    /\ pc = "sp_rmgit"
    /\ staging' = [staging EXCEPT !.files = RemoveGitDir(@)]
    /\ done' = done \cup {"rmgit"}
    /\ pc' = "sp_list"
    /\ UNCHANGED <<mode, pureVars, cliVars, fs, fs0, template>>
    /\ UNCHANGED <<opt, createdFiles, err, result, procs>>

\* lines 171-174 with listFilesRecursively (95-109): the files of the staging
\* tree, as paths relative to it
SpListFiles ==
    /\ pc = "sp_list"
    /\ createdFiles' = DOMAIN staging.files
    /\ done' = done \cup {"list"}
    /\ pc' = "sp_cp"
    /\ UNCHANGED <<mode, pureVars, cliVars, fsVars>>
    /\ UNCHANGED <<opt, err, result, procs>>

\* lines 176-179
SpCopy ==
    /\ pc = "sp_cp"
    /\ fs' = [fs EXCEPT ![opt.targetDir].files = CopyTree(@, staging.files)]
    /\ done' = done \cup {"cp"}
    /\ pc' = "sp_tokens"
    /\ UNCHANGED <<mode, pureVars, cliVars, fs0, staging, template>>
    /\ UNCHANGED <<opt, createdFiles, err, result, procs>>

\* line 180
SpApplyTokens ==
    /\ pc = "sp_tokens"
    /\ fs' = [fs EXCEPT ![opt.targetDir].files =
                  applyTemplateTokens(@, createdFiles, ProjectName)]
    /\ done' = done \cup {"tokens"}
    /\ pc' = "sp_install"
    /\ UNCHANGED <<mode, pureVars, cliVars, fs0, staging, template>>
    /\ UNCHANGED <<opt, createdFiles, err, result, procs>>

\* lines 169-180 inside the try block: rm, readdir, cp and the file reads and
\* writes reject on a filesystem error (permission denied, disk full), which
\* propagates as it is; a failing cp may have copied any part of the tree
SpFilesystemError ==
    /\ pc \in {"sp_rmgit", "sp_list", "sp_cp", "sp_tokens"}
    /\ \/ /\ pc = "sp_cp"
          /\ fs' = [fs EXCEPT ![opt.targetDir].files = CopyTree(@, staging.files)]
       \/ /\ UNCHANGED fs
    /\ err' = [kind |-> "filesystem error", dir |-> "-"]
    /\ pc' = "sp_finally"
    /\ UNCHANGED <<mode, pureVars, cliVars, fs0, staging, template>>
    /\ UNCHANGED <<opt, createdFiles, result, procs, done>>

\* the ScaffoldResult of lines 191-196
ScaffoldResult(installedDependencies) ==
    [createdFiles |-> createdFiles,
     installedDependencies |-> installedDependencies,
     projectName |-> ProjectName,
     targetDir |-> opt.targetDir]

\* lines 182-196: the optional install, then the return statement's value
SpInstallIgnoringExit ==
    /\ pc = "sp_install"
    /\ \/ /\ Install
          /\ \E exitCode_ \in ExitCodes :
                /\ procs' = Append(procs, [cmd |-> "install", exit |-> exitCode_])
                /\ result' = <<ScaffoldResult(TRUE)>>
                /\ UNCHANGED err
          /\ done' = done \cup {"install"}
       \/ /\ ~Install
          /\ result' = <<ScaffoldResult(FALSE)>>
          /\ UNCHANGED <<err, procs, done>>
    /\ pc' = "sp_finally"
    /\ UNCHANGED <<mode, pureVars, cliVars, fsVars>>
    /\ UNCHANGED <<opt, createdFiles>>

SpInstall ==
    /\ pc = "sp_install"
    /\ \/ /\ Install
          /\ \E exitCode_ \in ExitCodes :
                /\ procs' = Append(procs, [cmd |-> "install", exit |-> exitCode_])
                /\ \/ /\ exitCode_ # 0
                      /\ err' = [kind |-> "bun install failed.", dir |-> "-"]
                      /\ UNCHANGED result
                   \/ /\ exitCode_ = 0
                      /\ result' = <<ScaffoldResult(TRUE)>>
                      /\ UNCHANGED err
          /\ done' = done \cup {"install"}
       \/ /\ ~Install
          /\ result' = <<ScaffoldResult(FALSE)>>
          /\ UNCHANGED <<err, procs, done>>
    /\ pc' = "sp_finally"
    /\ UNCHANGED <<mode, pureVars, cliVars, fsVars>>
    /\ UNCHANGED <<opt, createdFiles>>

\* lines 197-199: the finally block, then the return or the rethrow
SpFinallyOnSuccessOnly ==
    /\ pc = "sp_finally"
    /\ \/ /\ err = NoError
          /\ staging' = AbsentDir
          /\ done' = done \cup {"cleanup"}
          /\ pc' = "sp_returned"
       \/ /\ err # NoError
          /\ UNCHANGED <<staging, done>>
          /\ pc' = "sp_thrown"
    /\ UNCHANGED <<mode, pureVars, cliVars, fs, fs0, template>>
    /\ UNCHANGED <<opt, createdFiles, err, result, procs>>

SpFinally ==
    /\ pc = "sp_finally"
    /\ staging' = AbsentDir
    /\ done' = done \cup {"cleanup"}
    /\ \/ /\ err = NoError
          /\ pc' = "sp_returned"
       \/ /\ err # NoError
          /\ pc' = "sp_thrown"
    /\ UNCHANGED <<mode, pureVars, cliVars, fs, fs0, template>>
    /\ UNCHANGED <<opt, createdFiles, err, result, procs>>

scaffoldProject ==
    \/ SpValidateName
    \/ SpCheckEmpty
    \/ SpMkdir
    \/ SpMkdtemp
    \/ SpClone
    \/ SpRemoveGit
    \/ SpListFiles
    \/ SpCopy
    \/ SpApplyTokens
    \/ SpFilesystemError
    \/ SpInstall
    \/ SpFinally

(***************************************************************************)
(* run (part_000 125-229), with exitCancelled (120-123) and the catch      *)
(* handler of lines 225-229.                                               *)
(***************************************************************************)
CwdBase == <<"w","s">>

\* resolve(cwd, name): the directory the name denotes
ResolveDir(name) == IF name \in {<<>>, <<".">>} THEN "cwd" ELSE "sub"

\* basename(resolve(cwd, name))
ResolvedBase(name) == IF ResolveDir(name) = "cwd" THEN CwdBase ELSE Basename(name)

NoLocal == [targetDir |-> "cwd", projectName |-> <<>>, force |-> FALSE]

NoOpt == [force |-> "undefined", install |-> "undefined",
          projectName |-> <<>>, targetDir |-> "cwd"]

BoolOpt(b) == IF b THEN "true" ELSE "false"

\* lines 120-123
exitCancelledWithError ==
    /\ cancelled' = TRUE
    /\ exitCode' = 1
    /\ pc' = "exited"

exitCancelled ==
    /\ cancelled' = TRUE
    /\ exitCode' = 0
    /\ pc' = "exited"

\* an Error thrown inside run reaches the catch handler of lines 225-229
RunThrow(message, dir) ==
    /\ err' = [kind |-> message, dir |-> dir]
    /\ exitCode' = 1
    /\ pc' = "exited"

\* line 126
RunParse ==
    /\ mode = "run" /\ pc = "run_parse"
    /\ cli' = parseArgs(argv)
    /\ \/ /\ cli'.error # "none"
          /\ RunThrow(cli'.error, "-")
       \/ /\ cli'.error = "none"
          /\ pc' = "run_flags"
          /\ UNCHANGED <<err, exitCode>>
    /\ UNCHANGED <<mode, pureVars, fsVars>>
    /\ UNCHANGED <<argv, tty, cancelled, local, info>>
    /\ UNCHANGED <<opt, createdFiles, result, procs, done>>

\* lines 128-139: help and version return at once
RunFlags ==
    /\ mode = "run" /\ pc = "run_flags"
    /\ \/ /\ cli.options.help \/ cli.options.version
          /\ exitCode' = 0
          /\ pc' = "exited"
       \/ /\ ~cli.options.help /\ ~cli.options.version
          /\ pc' = "run_resolve"
          /\ UNCHANGED exitCode
    /\ UNCHANGED <<mode, pureVars, fsVars, spVars>>
    /\ UNCHANGED <<argv, cli, tty, cancelled, local, info>>

LocalFor(name) ==
    [targetDir |-> ResolveDir(name), projectName |-> ResolvedBase(name),
     force |-> cli.options.force]

\* lines 141-158: the target and the project name from the arguments
RunResolve ==
    /\ mode = "run" /\ pc = "run_resolve"
    /\ \/ /\ cli.options.pathArg # Null
          /\ local' = LocalFor(cli.options.pathArg)
          /\ pc' = "run_name"
          /\ UNCHANGED <<err, exitCode>>
       \/ /\ cli.options.pathArg = Null
          /\ cli.options.projectNameArg # Null
          /\ local' = LocalFor(cli.options.projectNameArg)
          /\ pc' = "run_name"
          /\ UNCHANGED <<err, exitCode>>
       \/ /\ cli.options.pathArg = Null
          /\ cli.options.projectNameArg = Null
          /\ isDirectoryEmpty(fs["cwd"])
          /\ local' = LocalFor(<<>>)
          /\ pc' = "run_name"
          /\ UNCHANGED <<err, exitCode>>
       \/ /\ cli.options.pathArg = Null
          /\ cli.options.projectNameArg = Null
          /\ ~isDirectoryEmpty(fs["cwd"])
          /\ ~tty
          /\ RunThrow("Current directory is not empty.", "cwd")
          /\ UNCHANGED local
       \/ /\ cli.options.pathArg = Null
          /\ cli.options.projectNameArg = Null
          /\ ~isDirectoryEmpty(fs["cwd"])
          /\ tty
          /\ local' = LocalFor(<<>>)
          /\ pc' = "run_prompt"
          /\ UNCHANGED <<err, exitCode>>
    /\ UNCHANGED <<mode, pureVars, fsVars>>
    /\ UNCHANGED <<argv, cli, tty, cancelled, info>>
    /\ UNCHANGED <<opt, createdFiles, result, procs, done>>

\* what the validated text prompt can return besides the cancel symbol
PromptAnswers == { <<"a","p","p">>, <<" ","x"," ">> }

\* lines 160-176: the project-name prompt
RunPrompt ==
    /\ mode = "run" /\ pc = "run_prompt"
    /\ \/ /\ exitCancelled
          /\ UNCHANGED local
       \/ /\ \E answer \in PromptAnswers : local' = LocalFor(Trim(answer))
          /\ pc' = "run_name"
          /\ UNCHANGED <<exitCode, cancelled>>
    /\ UNCHANGED <<mode, pureVars, fsVars, spVars>>
    /\ UNCHANGED <<argv, cli, tty, info>>

\* lines 180-182
RunCheckName ==
    /\ mode = "run" /\ pc = "run_name"
    /\ \/ /\ Len(Trim(local.projectName)) = 0
          /\ RunThrow("Project name is required.", "-")
       \/ /\ Len(Trim(local.projectName)) # 0
          /\ pc' = "run_target"
          /\ UNCHANGED <<err, exitCode>>
    /\ UNCHANGED <<mode, pureVars, fsVars>>
    /\ UNCHANGED <<argv, cli, tty, cancelled, local, info>>
    /\ UNCHANGED <<opt, createdFiles, result, procs, done>>

\* lines 184-187
RunCheckTarget ==
    /\ mode = "run" /\ pc = "run_target"
    /\ \/ /\ ~isDirectoryEmpty(fs[local.targetDir]) /\ ~local.force
          /\ ~tty
          /\ RunThrow("Target directory is not empty.", local.targetDir)
       \/ /\ ~isDirectoryEmpty(fs[local.targetDir]) /\ ~local.force
          /\ tty
          /\ pc' = "run_confirm"
          /\ UNCHANGED <<err, exitCode>>
       \/ /\ ~(~isDirectoryEmpty(fs[local.targetDir]) /\ ~local.force)
          /\ pc' = "run_call"
          /\ UNCHANGED <<err, exitCode>>
    /\ UNCHANGED <<mode, pureVars, fsVars>>
    /\ UNCHANGED <<argv, cli, tty, cancelled, local, info>>
    /\ UNCHANGED <<opt, createdFiles, result, procs, done>>

\* lines 189-202: the overwrite confirmation
RunConfirm ==
    /\ mode = "run" /\ pc = "run_confirm"
    /\ \/ /\ exitCancelled
          /\ UNCHANGED <<err, local>>
       \/ /\ RunThrow("Aborted because target directory is not empty.", "-")
          /\ UNCHANGED <<cancelled, local>>
       \/ /\ local' = [local EXCEPT !.force = TRUE]
          /\ pc' = "run_call"
          /\ UNCHANGED <<err, exitCode, cancelled>>
    /\ UNCHANGED <<mode, pureVars, fsVars>>
    /\ UNCHANGED <<argv, cli, tty, info>>
    /\ UNCHANGED <<opt, createdFiles, result, procs, done>>

\* lines 205-213: the call of scaffoldProject
RunCall ==
    /\ mode = "run" /\ pc = "run_call"
    /\ opt' = [force |-> BoolOpt(local.force),
               install |-> BoolOpt(cli.options.install),
               projectName |-> local.projectName,
               targetDir |-> local.targetDir]
    /\ done' = done \cup {"call"}
    /\ pc' = "sp_entry"
    /\ UNCHANGED <<mode, pureVars, cliVars, fsVars>>
    /\ UNCHANGED <<createdFiles, err, result, procs>>

\* lines 215-222: the report after scaffoldProject returned
RunReport ==
    /\ mode = "run" /\ pc = "sp_returned"
    /\ info' = IF result[1].installedDependencies
                   THEN "Installed dependencies with bun install"
                   ELSE "Skipped dependency install (--no-install)"
    /\ exitCode' = 0
    /\ pc' = "exited"
    /\ UNCHANGED <<mode, pureVars, fsVars, spVars>>
    /\ UNCHANGED <<argv, cli, tty, cancelled, local>>

\* lines 225-229: an Error thrown by scaffoldProject
RunCatch ==
    /\ mode = "run" /\ pc = "sp_thrown"
    /\ exitCode' = 1
    /\ pc' = "exited"
    /\ UNCHANGED <<mode, pureVars, fsVars, spVars>>
    /\ UNCHANGED <<argv, cli, tty, cancelled, local, info>>

run ==
    \/ RunParse
    \/ RunFlags
    \/ RunResolve
    \/ RunPrompt
    \/ RunCheckName
    \/ RunCheckTarget
    \/ RunConfirm
    \/ RunCall
    \/ RunReport
    \/ RunCatch

(***************************************************************************)
(* Specification Spec: scaffoldProject called directly with every          *)
(* combination of options, and through run with every argument list.       *)
(***************************************************************************)
TemplatePaths == {PackageJson, LogoPng, GitIgnore}

TemplateContents == { <<"h","i">>, ProjectToken \o <<"/">> \o PackageToken }

Templates ==
    UNION {[S -> TemplateContents] :
               S \in {T \in SUBSET TemplatePaths : Cardinality(T) <= MaxFiles}}

OldContent == <<"o","l","d">>

SubStates ==
    { AbsentDir, EmptyDir,
      DirWith([p \in {PackageJson} |-> OldContent]),
      DirWith([p \in {NotesTxt} |-> ProjectToken]) }

CwdStates == { EmptyDir, DirWith([p \in {NotesTxt} |-> OldContent]) }

TriState == {"true", "false", "undefined"}

DirectNames ==
    { <<>>, <<" ">>, <<" ","a","p","p"," ">>,
      <<"M","y"," ","A","p","p","!">>, PackageToken, <<"a","$","$">> }

RunTokens ==
    { OptHelp, OptVersion, OptForce, OptNoInstall, OptPathEq \o <<"d">>,
      <<"a","p","p">>, <<" ">>, <<"-","x">> }

RunArgLists ==
    {<<>>} \cup {<<t>> : t \in RunTokens}
           \cup {<<t, u>> : t \in RunTokens, u \in RunTokens}

IdlePure ==
    /\ nameIn = <<>>
    /\ nameOut = None
    /\ nameOut2 = None

IdleCli ==
    /\ argv = <<>>
    /\ cli = None
    /\ tty = FALSE
    /\ exitCode = -1
    /\ cancelled = FALSE
    /\ local = NoLocal
    /\ info = ""

IdleScaffold ==
    /\ fs = [d \in {"cwd", "sub"} |-> EmptyDir]
    /\ fs0 = fs
    /\ staging = AbsentDir
    /\ template = NoFiles
    /\ opt = NoOpt
    /\ createdFiles = {}
    /\ err = NoError
    /\ result = <<>>
    /\ procs = <<>>
    /\ done = {}

InitDirect ==
    /\ mode = "direct"
    /\ pc = "sp_entry"
    /\ IdlePure
    /\ IdleCli
    /\ \E s \in SubStates : fs = [d \in {"cwd", "sub"} |-> IF d = "sub" THEN s ELSE EmptyDir]
    /\ fs0 = fs
    /\ staging = AbsentDir
    /\ template \in Templates
    /\ opt \in [force : TriState, install : TriState,
                projectName : DirectNames, targetDir : {"sub"}]
    /\ createdFiles = {}
    /\ err = NoError
    /\ result = <<>>
    /\ procs = <<>>
    /\ done = {"call"}

InitRun ==
    /\ mode = "run"
    /\ pc = "run_parse"
    /\ IdlePure
    /\ argv \in RunArgLists
    /\ cli = None
    /\ tty \in BOOLEAN
    /\ exitCode = -1
    /\ cancelled = FALSE
    /\ local = NoLocal
    /\ info = ""
    /\ \E c \in CwdStates, s \in SubStates :
          fs = [d \in {"cwd", "sub"} |-> IF d = "sub" THEN s ELSE c]
    /\ fs0 = fs
    /\ staging = AbsentDir
    /\ template \in Templates
    /\ opt = NoOpt
    /\ createdFiles = {}
    /\ err = NoError
    /\ result = <<>>
    /\ procs = <<>>
    /\ done = {}

Init == InitDirect \/ InitRun

Next == scaffoldProject \/ run

Spec == Init /\ [][Next]_vars

(***************************************************************************)
(* Specification SpecNormalize: normalizePackageName on every name of at   *)
(* most MaxNameLen characters over NameChars, then on its own result.      *)
(***************************************************************************)
NameChars == {"A", "b", "7", "-", "_", " ", "!"}

NameInputs == UNION {[1..k -> NameChars] : k \in 0..MaxNameLen}

InitNormalize ==
    /\ mode = "normalize"
    /\ pc = "call"
    /\ nameIn \in NameInputs
    /\ nameOut = None
    /\ nameOut2 = None
    /\ IdleCli
    /\ IdleScaffold

NormalizeOnce ==
    /\ mode = "normalize"
    /\ pc = "call"
    /\ nameOut' = normalizePackageName(nameIn)
    /\ pc' = "again"
    /\ UNCHANGED <<mode, nameIn, nameOut2, cliVars, fsVars, spVars>>

NormalizeAgain ==
    /\ mode = "normalize"
    /\ pc = "again"
    /\ nameOut2' = normalizePackageName(nameOut)
    /\ pc' = "done"
    /\ UNCHANGED <<mode, nameIn, nameOut, cliVars, fsVars, spVars>>

NextNormalize ==
    \/ NormalizeOnce
    \/ NormalizeAgain

SpecNormalize == InitNormalize /\ [][NextNormalize]_vars

(***************************************************************************)
(* Specification SpecArgs: parseArgs on every argument list of at most     *)
(* MaxArgs tokens over ArgTokens.                                          *)
(***************************************************************************)
ArgTokens ==
    { OptHelp, OptV, OptForce, OptNoInstall, OptPath, OptP,
      OptPathEq \o <<"d">>, OptPEq \o <<"d">>, OptPathEq, OptPEq \o <<" ">>,
      <<"-","x">>, <<"a","p","p">>, <<"d">>, <<" ">>, <<>> }

ArgLists == UNION {[1..k -> ArgTokens] : k \in 0..MaxArgs}

InitArgs ==
    /\ mode = "args"
    /\ pc = "call"
    /\ IdlePure
    /\ argv \in ArgLists
    /\ cli = None
    /\ tty = FALSE
    /\ exitCode = -1
    /\ cancelled = FALSE
    /\ local = NoLocal
    /\ info = ""
    /\ IdleScaffold

ParseArgsCall ==
    /\ mode = "args"
    /\ pc = "call"
    /\ cli' = parseArgs(argv)
    /\ pc' = "done"
    /\ UNCHANGED <<mode, pureVars, fsVars, spVars>>
    /\ UNCHANGED <<argv, tty, exitCode, cancelled, local, info>>

NextArgs == ParseArgsCall

SpecArgs == InitArgs /\ [][NextArgs]_vars

(***************************************************************************)
(* Properties.                                                             *)
(***************************************************************************)
\* scaffoldProject was called and control is back with its caller
SpEnded == "call" \in done /\ pc \in {"sp_returned", "sp_thrown", "exited"}

SpSucceeded == SpEnded /\ err = NoError /\ result # <<>>

AllExitedZero == \A i \in DOMAIN procs : procs[i].exit = 0

NoFilesystemError == err.kind # "filesystem error"

NotEmptyError == [kind |-> "Target directory is not empty.", dir |-> opt.targetDir]

EmptyNameError == [kind |-> "Project name must not be empty.", dir |-> "-"]

\* the target was non-empty when scaffoldProject was called without force
NonEmptyUnforced ==
    /\ "call" \in done
    /\ opt.force # "true"
    /\ fs0[opt.targetDir].exists
    /\ DOMAIN fs0[opt.targetDir].files # {}

\* the target was absent or an empty directory when scaffoldProject was called
TargetWasEmpty ==
    \/ ~fs0[opt.targetDir].exists
    \/ DOMAIN fs0[opt.targetDir].files = {}

NothingWritten ==
    /\ fs = fs0
    /\ staging = AbsentDir
    /\ procs = <<>>
    /\ done = {"call"}

\* C1: once the staging directory was created, it no longer exists when
\* scaffoldProject hands control back, with a result or with an error of any
\* later step (clone, .git removal, listing, copy, token rewrite, install).
C1_StagingRemoved ==
    (SpEnded /\ "mkdtemp" \in done) => (~staging.exists /\ "cleanup" \in done)

\* a clone that failed after leaving files in the staging directory
C1_Witness ==
    /\ pc = "sp_thrown"
    /\ err.kind = "git clone failed."
    /\ "mkdtemp" \in done
    /\ staging = AbsentDir

\* C2 as claimed: a non-empty target without force always ends in the "not
\* empty" error naming the target, and nothing is written.
C2_Claimed ==
    NonEmptyUnforced =>
        /\ NothingWritten
        /\ SpEnded => err = NotEmptyError

\* C2 amended: a non-empty target without force ends in the "not empty" error
\* naming the target when the trimmed project name is non-empty and in the
\* empty-name error when it is empty, and in both cases nothing is written.
C2_NonEmptyUnforcedFails ==
    NonEmptyUnforced =>
        /\ NothingWritten
        /\ result = <<>>
        /\ SpEnded =>
              err = IF Len(ProjectName) = 0 THEN EmptyNameError ELSE NotEmptyError

\* force absent, a target holding package.json: rejected
C2_Witness ==
    /\ pc = "sp_thrown"
    /\ opt.force = "undefined"
    /\ PackageJson \in DOMAIN fs0["sub"].files
    /\ err = NotEmptyError

\* C3 as claimed: after a failed clone the target path is as it was before
\* the call, whether it was absent, empty or non-empty.
C3_Claimed ==
    (SpEnded /\ err.kind = "git clone failed.") =>
        fs[opt.targetDir] = fs0[opt.targetDir]

\* C3 amended: after a failed clone no file below the target was created,
\* changed or removed; a target that existed is as it was, and a target that
\* did not exist is left behind as an empty directory.
C3_CloneFailureKeepsFiles ==
    (SpEnded /\ err.kind = "git clone failed.") =>
        /\ fs[opt.targetDir].files = fs0[opt.targetDir].files
        /\ fs[opt.targetDir].exists
        /\ \A d \in DOMAIN fs : fs0[d].exists => fs[d] = fs0[d]

\* a failed clone into a forced, non-empty target
C3_Witness ==
    /\ pc = "sp_thrown"
    /\ err.kind = "git clone failed."
    /\ opt.force = "true"
    /\ PackageJson \in DOMAIN fs0[opt.targetDir].files
    /\ fs = fs0

\* the substitution C4 describes: every occurrence of either token in the
\* template text replaced, the replacement text inserted as it is
RECURSIVE LiteralSubstitute(_, _, _)
LiteralSubstitute(text, projectName, packageName) ==
    IF text = <<>> THEN <<>>
    ELSE IF StartsWith(text, ProjectToken)
        THEN projectName \o LiteralSubstitute(
                 SubSeq(text, Len(ProjectToken) + 1, Len(text)), projectName, packageName)
    ELSE IF StartsWith(text, PackageToken)
        THEN packageName \o LiteralSubstitute(
                 SubSeq(text, Len(PackageToken) + 1, Len(text)), projectName, packageName)
    ELSE <<text[1]>> \o LiteralSubstitute(Tail(text), projectName, packageName)

\* C4: after a successful scaffoldProject every copied text file holds the
\* template text with __PROJECT_NAME__ replaced by the project name and
\* __PACKAGE_NAME__ by the normalized package name, for every project name,
\* and every other copied file is identical to its template file.
C4_Claimed ==
    SpSucceeded =>
        \A p \in createdFiles :
            fs[opt.targetDir].files[p] =
                IF IsTemplateText(p)
                    THEN LiteralSubstitute(template[p], ProjectName,
                                           normalizePackageName(ProjectName))
                    ELSE template[p]

\* C5: the value normalizePackageName returns is non-empty and made only of
\* characters of [a-z0-9-_] (the fallback "bun-app" included), and applying
\* normalizePackageName to that value returns it unchanged.
C5_NormalizeShapeAndIdempotent ==
    /\ pc \in {"again", "done"} =>
          /\ nameOut # <<>>
          /\ \/ Range(nameOut) \subseteq PackageChars
             \/ nameOut = FallbackName
    /\ pc = "done" => nameOut2 = nameOut

\* a name that needed every rewriting step, normalized twice
C5_Witness ==
    /\ pc = "done"
    /\ nameIn = <<" ", "A", "!">>
    /\ nameOut = <<"a">>
    /\ nameOut2 = <<"a">>

\* an argument that selects the target path, in any of its four spellings
IsPathOption(arg) ==
    \/ arg = OptPath
    \/ arg = OptP
    \/ StartsWith(arg, OptPathEq)
    \/ StartsWith(arg, OptPEq)

\* a positional argument: not a flag and not the value of a preceding --path / -p
IsPositionalAt(args, i) ==
    /\ ~StartsWith(args[i], <<"-">>)
    /\ i > 1 => args[i - 1] \notin {OptPath, OptP}

SuppliesBoth(args) ==
    /\ \E i \in DOMAIN args : IsPathOption(args[i])
    /\ \E i \in DOMAIN args : IsPositionalAt(args, i)

\* C6: parseArgs never returns options with both projectNameArg and pathArg
\* set, and every argument list holding both a positional project name and a
\* path option (any order, any spelling, any other flags) makes it throw.
C6_NameAndPathExclusive ==
    pc = "done" =>
        /\ cli.error = "none" =>
              ~(cli.options.projectNameArg # Null /\ cli.options.pathArg # Null)
        /\ SuppliesBoth(argv) => cli.error # "none"

\* "--help app --path=d": both given, with the help flag, rejected by the
\* check that follows the loop
C6_Witness ==
    /\ pc = "done"
    /\ argv = <<OptHelp, <<"a","p","p">>, OptPathEq \o <<"d">> >>
    /\ cli.error = "Use either a project name argument or --path, not both."

\* C7: called with a non-empty project name, without force, on a target that
\* is empty or absent, scaffoldProject never raises the "not empty" error,
\* and when no subprocess exits non-zero and no filesystem operation fails it
\* returns a result and the target exists and holds exactly the template's
\* files (the non-text ones unchanged).
C7_EmptyTargetSucceeds ==
    ("call" \in done /\ Len(ProjectName) # 0 /\ opt.force # "true"
        /\ TargetWasEmpty) =>
        /\ err # NotEmptyError
        /\ (SpEnded /\ AllExitedZero /\ NoFilesystemError) =>
              /\ SpSucceeded
              /\ fs[opt.targetDir].exists
              /\ DOMAIN fs[opt.targetDir].files = DOMAIN template
              /\ result[1].createdFiles = DOMAIN template
              /\ \A p \in DOMAIN template :
                    ~IsTemplateText(p) => fs[opt.targetDir].files[p] = template[p]

\* an absent target, no force, a template of two files: scaffolded
C7_Witness ==
    /\ pc = "sp_returned"
    /\ opt.force = "false"
    /\ fs0[opt.targetDir] = AbsentDir
    /\ DOMAIN fs[opt.targetDir].files = {PackageJson, LogoPng}

\* the target was non-empty when scaffoldProject was called with force
NonEmptyForced ==
    /\ "call" \in done
    /\ opt.force = "true"
    /\ DOMAIN fs0[opt.targetDir].files # {}

TemplateInstalled ==
    \A p \in DOMAIN template :
        /\ p \in DOMAIN fs[opt.targetDir].files
        /\ fs[opt.targetDir].files[p] =
               IF IsTemplateText(p)
                   THEN RewriteTokens(template[p], ProjectName)
                   ELSE template[p]

\* C8 as claimed: every forced call on a non-empty target whose subprocesses
\* succeed returns without error, with every template file in place.
C8_Claimed ==
    (NonEmptyForced /\ SpEnded /\ AllExitedZero /\ NoFilesystemError) =>
        /\ SpSucceeded
        /\ TemplateInstalled

\* C8 amended: a forced call on a non-empty target with a project name that is
\* non-empty after trimming, whose subprocesses succeed, returns without error
\* and every template file is at its relative path below the target, in place
\* of whatever file was there before; the other files of the target stay.
C8_ForcedOverwrite ==
    (NonEmptyForced /\ Len(ProjectName) # 0 /\ SpEnded
        /\ AllExitedZero /\ NoFilesystemError) =>
        /\ SpSucceeded
        /\ TemplateInstalled
        /\ \A p \in DOMAIN fs0[opt.targetDir].files \ DOMAIN template :
              /\ p \in DOMAIN fs[opt.targetDir].files
              /\ fs[opt.targetDir].files[p] = fs0[opt.targetDir].files[p]

\* the old package.json replaced by the template's
C8_Witness ==
    /\ pc = "sp_returned"
    /\ opt.force = "true"
    /\ PackageJson \in DOMAIN fs0[opt.targetDir].files
    /\ PackageJson \in DOMAIN template
    /\ fs[opt.targetDir].files[PackageJson] # OldContent

\* C9: the install command is spawned only if installation was requested and
\* only after the copy and the token rewrite; a non-zero install exit code
\* leaves no result and ends the call in the install error; a returned result
\* has installedDependencies true exactly when installation was requested and
\* the command exited with 0, and run reports the install accordingly.
C9_InstallGated ==
    /\ Spawned("install") =>
          /\ Install
          /\ {"cp", "tokens"} \subseteq done
          /\ Spawned("clone") /\ ExitCodeOf("clone") = 0
    /\ (Spawned("install") /\ ExitCodeOf("install") # 0) =>
          /\ result = <<>>
          /\ err.kind = "bun install failed."
          /\ info = ""
    /\ result # <<>> =>
          /\ {"cp", "tokens"} \subseteq done
          /\ result[1].installedDependencies =
                (Install /\ Spawned("install") /\ ExitCodeOf("install") = 0)
          /\ result[1].installedDependencies = Install
    /\ info # "" =>
          (info = "Installed dependencies with bun install") =
              (Spawned("install") /\ ExitCodeOf("install") = 0)

\* an install that exited with 1 after the files were in place
C9_Witness ==
    /\ pc = "sp_thrown"
    /\ err.kind = "bun install failed."
    /\ ExitCodeOf("install") = 1
    /\ {"cp", "tokens"} \subseteq done
    /\ result = <<>>

\* C10: when the user cancels the project-name prompt or the overwrite
\* confirmation, the process ends with exit code 0, scaffoldProject is not
\* called and the filesystem is as it was.
C10_CancelIsCleanExit ==
    cancelled =>
        /\ pc = "exited"
        /\ exitCode = 0
        /\ err = NoError
        /\ "call" \notin done
        /\ fs = fs0
        /\ staging = AbsentDir
        /\ procs = <<>>

\* the overwrite confirmation cancelled
C10_Witness ==
    /\ cancelled
    /\ pc = "exited"
    /\ cli.options.projectNameArg # Null
    /\ local.targetDir = "sub"
    /\ DOMAIN fs["sub"].files # {}

====
